---- MODULE Spec2Model ----
(***************************************************************************)
(* A model of the MLH documentation assistant:                             *)
(*   - the Query Client (query_rag in query_test.py, query_rag_streaming   *)
(*     in app.py),                                                         *)
(*   - the Chat Session Orchestrator (the Streamlit script app.py),        *)
(*   - the Document Ingestor (setup_store.py).                             *)
(* The remote generation API, the file-search store, the environment and   *)
(* the user are the nondeterministic environment of the three programs.    *)
(***************************************************************************)
EXTENDS Integers, Sequences, FiniteSets, TLC

VARIABLES
    \* ---- Query Client harness (one call of each mode on one remote answer)
    q_pc,               \* "start" | "synced" | "streaming" | "done"
    q_in,               \* [store, query, key, remote]: the inputs of the calls
    q_sync,             \* outcome of query_rag(store, query)
    q_gen,              \* the generator object of query_rag_streaming(...)
    q_buf,              \* the consumer's [full_response, citations]
    q_end,              \* how the consumption ended: "none" | "stop" | exception
    \* ---- Chat Session Orchestrator (st.session_state and the script's locals)
    messages,           \* st.session_state.messages
    pending_question,   \* st.session_state.pending_question
    pc,                 \* "idle" | "rerun" | "sending" | "streaming" | "rendering"
    store_name,         \* value of the sidebar text input in the current run
    api_key,            \* whether GEMINI_API_KEY is set for the app
    run_input,          \* widget values of the latest script run
    user_input,         \* the script's user_input
    full_response,      \* the script's full_response buffer
    citations,          \* the script's citations
    gen,                \* the generator the script iterates over
    last_error,         \* what st.error last reported in the latest run
    \* ---- Document Ingestor (setup_store.py main)
    i_pc,               \* position of main()
    i_key,              \* whether GEMINI_API_KEY is set for the script
    fate,               \* per document: what the network / remote does to it
    doc,                \* index of the document the for loop is at
    operation,          \* the upload operation object: [done, error]
    downloaded,         \* documents written to the temporary directory
    submitted,          \* documents handed to upload_to_file_search_store
    reports,            \* per document: number of error lines printed
    elapsed,            \* time.time() - start_time at the last clock reading
    last_poll,          \* counts read by the poll that ended the wait
    saw,                \* what the polls so far have reported
    index_result        \* "none" | "complete" | "partial" | "timeout"

q_vars == <<q_pc, q_in, q_sync, q_gen, q_buf, q_end>>
c_vars == <<messages, pending_question, pc, store_name, api_key, run_input,
            user_input, full_response, citations, gen, last_error>>
i_vars == <<i_pc, i_key, fate, doc, operation, downloaded, submitted, reports,
            elapsed, last_poll, saw, index_result>>
vars == <<q_vars, c_vars, i_vars>>

(***************************************************************************)
(* Python values.  An attribute of a response object is Absent (hasattr is *)
(* False), Null (None) or a value; text that is concatenated is a sequence *)
(* of characters, names are strings.                                       *)
(***************************************************************************)
Absent == [tag |-> "absent"]
Null == [tag |-> "null"]
Txt(chars) == [tag |-> "txt", chars |-> chars]
Str(s) == [tag |-> "str", s |-> s]
List(items) == [tag |-> "list", items |-> items]
Citation(file_name, text) == [tag |-> "cit", file_name |-> file_name, text |-> text]
Metadata(file_citations) == [tag |-> "gm", fc |-> file_citations]
Candidate(grounding_metadata) == [tag |-> "cand", gm |-> grounding_metadata]

None == "<None>"

HasAttr(v) == v.tag # "absent"

\* Python truthiness of an attribute value
Truthy(v) ==
    CASE v.tag = "absent" -> FALSE
      [] v.tag = "null" -> FALSE
      [] v.tag = "txt" -> v.chars # <<>>
      [] v.tag = "str" -> v.s # ""
      [] v.tag = "list" -> v.items # <<>>
      [] OTHER -> TRUE

(***************************************************************************)
(* Bounds of the model and the input sets drawn from them.                 *)
(***************************************************************************)
MaxChunks == 2
MaxCitations == 1
MaxTurns == 4
NumDocs == 2
MaxCount == 1

SeqsUpTo(S, n) == UNION {[1..k -> S] : k \in 0..n}

Questions == {"What is MLH's code of conduct?", "How do I organize a hackathon?"}
Stores == {"", "stores/test123"}

ChunkTexts == {Null, Txt(<<>>), Txt(<<"a">>), Txt(<<"b">>)}
AttrNames == {Absent, Null, Str("doc.md")}
AttrTexts == {Absent, Null, Str("snippet")}
CitationValues == {Citation(f, t) : f \in AttrNames, t \in AttrTexts}
FileCitationsValues ==
    {Absent, Null} \cup {List(s) : s \in SeqsUpTo(CitationValues, MaxCitations)}
GroundingValues == {Absent, Null} \cup {Metadata(y) : y \in FileCitationsValues}
CandidatesValues ==
    {Absent, Null, List(<<>>), List(<<Null>>)}
        \cup {List(<<Candidate(x)>>) : x \in GroundingValues}

Chunk(text, candidates) == [text |-> text, candidates |-> candidates]

\* the chunks of a streamed answer: the texts in order, the response metadata
\* on the final chunk
ChunksOf(texts, meta) ==
    [k \in 1..Len(texts) |->
        Chunk(texts[k], IF k = Len(texts) THEN meta ELSE Absent)]

Remote(chunks, ending) == [chunks |-> chunks, ending |-> ending]

RemoteAnswers ==
    {Remote(ChunksOf(t, m), e) :
        t \in SeqsUpTo(ChunkTexts, MaxChunks), m \in CandidatesValues,
        e \in {"end", "error"}}

(***************************************************************************)
(* Query Client: citation extraction (the same code in both modes).        *)
(***************************************************************************)
Ok(items) == [ok |-> TRUE, items |-> items]
TypeError == [ok |-> FALSE, items |-> <<>>]

\* the dict appended for one citation
CitationEntry(c) ==
    [source |-> IF c.tag = "cit" /\ HasAttr(c.file_name)
                THEN c.file_name ELSE Str("Unknown"),
     text |-> IF c.tag = "cit" /\ HasAttr(c.text) THEN c.text ELSE Str("")]

\* for citation in metadata.file_citations: citations.append({...})
ForCitations(fc) ==
    IF fc.tag = "list"
    THEN Ok([k \in 1..Len(fc.items) |-> CitationEntry(fc.items[k])])
    ELSE TypeError

\* the citations one response object (a chunk, a response) contributes
ExtractCitations(candidates) ==
    IF ~(HasAttr(candidates) /\ Truthy(candidates)) THEN Ok(<<>>)
    ELSE LET candidate == candidates.items[1] IN
         IF ~(candidate.tag = "cand" /\ HasAttr(candidate.gm)) THEN Ok(<<>>)
         ELSE LET metadata == candidate.gm IN
              IF ~(metadata.tag = "gm" /\ HasAttr(metadata.fc)) THEN Ok(<<>>)
              ELSE ForCitations(metadata.fc)

RECURSIVE FullText(_)
\* the answer text of a remote answer: its text parts in order
FullText(chunks) ==
    IF chunks = <<>> THEN <<>>
    ELSE (IF Head(chunks).text.tag = "txt" THEN Head(chunks).text.chars ELSE <<>>)
             \o FullText(Tail(chunks))

\* the response object generate_content returns for a remote answer
SyncResponse(remote) ==
    [text |-> Txt(FullText(remote.chunks)),
     candidates |-> IF remote.chunks = <<>> THEN Absent
                    ELSE remote.chunks[Len(remote.chunks)].candidates]

Raised(exc, calls) ==
    [status |-> "raise", exc |-> exc, text |-> <<>>, citations |-> <<>>,
     calls |-> calls]

\* query_rag(store_name, query) with GEMINI_API_KEY set or not
query_rag(store, query, key, remote) ==
    IF ~key THEN Raised("ValueError", 0)
    ELSE IF remote.ending = "error" THEN Raised("RemoteError", 1)
    ELSE LET response == SyncResponse(remote)
             cites == ExtractCitations(response.candidates)
         IN IF ~cites.ok THEN Raised("TypeError", 1)
            ELSE [status |-> "ok", exc |-> "", text |-> response.text.chars,
                  citations |-> cites.items, calls |-> 1]

(***************************************************************************)
(* Query Client: the generator query_rag_streaming(client, store, query).  *)
(* pc: "new" (not started), "loop" (at the head of the for loop), "held"   *)
(* (suspended at yield chunk.text), "tail" (suspended at the citations     *)
(* yield), "closed".                                                       *)
(***************************************************************************)
NoGen ==
    [pc |-> "closed", store |-> "", query |-> "", remote |-> Remote(<<>>, "end"),
     full_response |-> <<>>, citations |-> <<>>, held |-> Absent, calls |-> 0]

NewGen(store, query, remote) ==
    [NoGen EXCEPT !.pc = "new", !.store = store, !.query = query,
                  !.remote = remote]

EvText(chars) == [kind |-> "text", chars |-> chars]
EvCitations(cites) == [kind |-> "citations", citations |-> cites]
EvStop == [kind |-> "stop"]
EvRaise(exc) == [kind |-> "raise", exc |-> exc]

Closed(g) == [g EXCEPT !.pc = "closed", !.held = Absent]

\* if hasattr(chunk, 'text') and chunk.text
YieldsText(chunk) == HasAttr(chunk.text) /\ Truthy(chunk.text)

RECURSIVE GenNext(_)
\* next(generator): runs the generator to its next yield, return or raise
GenNext(g) ==
    CASE g.pc = "new" ->
            IF g.store = ""
            THEN [g |-> Closed(g), ev |-> EvRaise("ValueError")]
            ELSE GenNext([g EXCEPT !.pc = "loop", !.calls = @ + 1])
      [] g.pc = "held" ->
            LET cites == ExtractCitations(g.held) IN
            IF ~cites.ok THEN [g |-> Closed(g), ev |-> EvRaise("TypeError")]
            ELSE GenNext([g EXCEPT !.pc = "loop", !.held = Absent,
                                   !.citations = @ \o cites.items])
      [] g.pc = "loop" ->
            IF g.remote.chunks = <<>>
            THEN IF g.remote.ending = "error"
                 THEN [g |-> Closed(g), ev |-> EvRaise("RemoteError")]
                 ELSE IF g.citations # <<>>
                 THEN [g |-> [g EXCEPT !.pc = "tail"], ev |-> EvCitations(g.citations)]
                 ELSE [g |-> Closed(g), ev |-> EvStop]
            ELSE LET chunk == Head(g.remote.chunks)
                     rest == [g EXCEPT !.remote.chunks = Tail(@)]
                 IN IF YieldsText(chunk)
                    THEN [g |-> [rest EXCEPT !.pc = "held",
                                             !.held = chunk.candidates,
                                             !.full_response = @ \o chunk.text.chars],
                          ev |-> EvText(chunk.text.chars)]
                    ELSE LET cites == ExtractCitations(chunk.candidates) IN
                         IF ~cites.ok
                         THEN [g |-> Closed(rest), ev |-> EvRaise("TypeError")]
                         ELSE GenNext([rest EXCEPT !.citations = @ \o cites.items])
      [] OTHER -> [g |-> Closed(g), ev |-> EvStop]

(***************************************************************************)
(* The consumer's loop body (app.py): a citations marker replaces the      *)
(* citations, anything else is appended to the text.                       *)
(***************************************************************************)
EmptyBuf == [full_response |-> <<>>, citations |-> <<>>]

\* the loop body with the text assigned instead of appended
ConsumeAssigning(buf, ev) ==
    IF ev.kind = "citations"
    THEN [buf EXCEPT !.citations = ev.citations]
    ELSE [buf EXCEPT !.full_response = ev.chars]

Consume(buf, ev) ==
    IF ev.kind = "citations"
    THEN [buf EXCEPT !.citations = ev.citations]
    ELSE [buf EXCEPT !.full_response = @ \o ev.chars]

(***************************************************************************)
(* Query Client harness: both modes are called once on the same inputs and *)
(* the same remote answer; the streaming generator is consumed by the      *)
(* loop body above.                                                        *)
(***************************************************************************)
NotRun == [status |-> "none", exc |-> "", text |-> <<>>, citations |-> <<>>,
           calls |-> 0]

QueryIdle ==
    /\ q_pc = "off"
    /\ q_in = [store |-> "", query |-> "", key |-> FALSE,
               remote |-> Remote(<<>>, "end")]
    /\ q_sync = NotRun
    /\ q_gen = NoGen
    /\ q_buf = EmptyBuf
    /\ q_end = "none"

QSync ==
    /\ q_pc = "start"
    /\ q_sync' = query_rag(q_in.store, q_in.query, q_in.key, q_in.remote)
    /\ q_pc' = "synced"
    /\ UNCHANGED <<q_in, q_gen, q_buf, q_end>>
    /\ UNCHANGED <<c_vars, i_vars>>

QStreamCall ==
    /\ q_pc = "synced"
    /\ q_gen' = NewGen(q_in.store, q_in.query, q_in.remote)
    /\ q_pc' = "streaming"
    /\ UNCHANGED <<q_in, q_sync, q_buf, q_end>>
    /\ UNCHANGED <<c_vars, i_vars>>

QStreamNext ==
    /\ q_pc = "streaming"
    /\ LET r == GenNext(q_gen) IN
       /\ q_gen' = r.g
       /\ IF r.ev.kind \in {"text", "citations"}
          THEN /\ q_buf' = Consume(q_buf, r.ev)
               /\ UNCHANGED <<q_pc, q_end>>
          ELSE /\ q_end' = IF r.ev.kind = "stop" THEN "stop" ELSE r.ev.exc
               /\ q_pc' = "done"
               /\ UNCHANGED q_buf
    /\ UNCHANGED <<q_in, q_sync>>
    /\ UNCHANGED <<c_vars, i_vars>>

(***************************************************************************)
(* Chat Session Orchestrator: the Streamlit script app.py.  One script run *)
(* starts from the widget values of the event that triggered it; the run   *)
(* of a question is split at the points where the generator is resumed.    *)
(***************************************************************************)
ClearClick == "<clear>"
Examples == {"What is MLH's code of conduct?"}
Clicks == {None, ClearClick} \cup Examples
ChatTexts == {None} \cup Questions

OneCitation ==
    List(<<Candidate(Metadata(List(<<Citation(Str("doc.md"), Str("snippet"))>>)))>>)
NullCitations == List(<<Candidate(Metadata(Null))>>)

\* the remote answers a chat turn may meet: a full answer with a citation, an
\* empty answer, a failure after one fragment, a failed call, and a null
\* citation list after one fragment
ChatRemotes ==
    {Remote(ChunksOf(<<Txt(<<"a">>), Txt(<<"b">>)>>, OneCitation), "end"),
     Remote(<<>>, "end"),
     Remote(ChunksOf(<<Txt(<<"a">>)>>, Absent), "error"),
     Remote(<<>>, "error"),
     Remote(ChunksOf(<<Txt(<<"b">>)>>, NullCitations), "end")}

UserTurn(text) == [role |-> "user", content |-> text]
AssistantTurn(text, cites) ==
    [role |-> "assistant", content |-> text, citations |-> cites]

\* Python truthiness of a str-or-None value
Given(s) == s # None /\ s # ""

\* sidebar: an example button stores its question as the pending question
Sidebar(click) == IF click \in Examples THEN click ELSE pending_question

\* the pending question, when there is one, else the chat input
NextInput(pending, chat) == IF Given(pending) THEN pending ELSE chat

\* the pending question never reset
PendingKept(pending) == pending

\* the pending question after the script has looked at it
AfterPending(pending) == IF Given(pending) THEN None ELSE pending

\* a clear button that leaves the transcript as it is
NotCleared(msgs) == msgs

\* st.session_state.messages = [] of the clear button
Cleared(msgs) == <<>>

\* the assistant message inserted at the front of the transcript
CommittedInFront(msgs, text, cites) == <<AssistantTurn(text, cites)>> \o msgs

\* st.session_state.messages.append({"role": "assistant", ...})
Committed(msgs, text, cites) == Append(msgs, AssistantTurn(text, cites))

\* an except clause that keeps the partial answer as an assistant message
PartialCommit(msgs, text, cites) == Append(msgs, AssistantTurn(text, cites))

\* what the except clause leaves of the transcript
AfterException(msgs, text, cites) == msgs

ChatIdle ==
    /\ messages = <<>>
    /\ pending_question = None
    /\ pc = "idle"
    /\ store_name = ""
    /\ api_key = FALSE
    /\ run_input = [click |-> None, chat |-> None]
    /\ user_input = None
    /\ full_response = <<>>
    /\ citations = <<>>
    /\ gen = NoGen
    /\ last_error = ""

ScriptRun(click, chat, store) ==
    /\ pc \in {"idle", "rerun"}
    /\ pc = "rerun" => click = None /\ chat = None /\ store = store_name
    /\ click \in Examples \/ chat # None => Len(messages) + 2 <= MaxTurns
    /\ run_input' = [click |-> click, chat |-> chat]
    /\ store_name' = store
    /\ UNCHANGED <<api_key, gen>>
    /\ IF click = ClearClick
       THEN /\ messages' = Cleared(messages)
            /\ pending_question' = Sidebar(click)
            /\ pc' = "rerun"
            /\ last_error' = ""
            /\ UNCHANGED <<user_input, full_response, citations>>
       ELSE LET input == NextInput(Sidebar(click), chat) IN
            /\ pending_question' = AfterPending(Sidebar(click))
            /\ user_input' = input
            /\ IF ~Given(input)
               THEN /\ pc' = "idle"
                    /\ last_error' = ""
                    /\ UNCHANGED <<messages, full_response, citations>>
               ELSE IF store = ""
               THEN /\ pc' = "idle"
                    /\ last_error' = "store name required"
                    /\ UNCHANGED <<messages, full_response, citations>>
               ELSE /\ messages' = Append(messages, UserTurn(input))
                    /\ full_response' = <<>>
                    /\ citations' = <<>>
                    /\ last_error' = ""
                    /\ pc' = "sending"
    /\ UNCHANGED <<q_vars, i_vars>>

\* get_gemini_client() without GEMINI_API_KEY: st.error, st.stop
ClientMissing ==
    /\ pc = "sending"
    /\ ~api_key
    /\ last_error' = "GEMINI_API_KEY not found"
    /\ messages' = AfterException(messages, full_response, citations)
    /\ pc' = "idle"
    /\ UNCHANGED <<pending_question, store_name, api_key, run_input, user_input,
                   full_response, citations, gen>>
    /\ UNCHANGED <<q_vars, i_vars>>

\* client = get_gemini_client(); query_rag_streaming(client, store_name, user_input)
StartStream(remote) ==
    /\ pc = "sending"
    /\ api_key
    /\ gen' = NewGen(store_name, user_input, remote)
    /\ pc' = "streaming"
    /\ UNCHANGED <<messages, pending_question, store_name, api_key, run_input,
                   user_input, full_response, citations, last_error>>
    /\ UNCHANGED <<q_vars, i_vars>>

\* one iteration of: for chunk in query_rag_streaming(...)
StreamNext ==
    /\ pc = "streaming"
    /\ LET r == GenNext(gen)
           buf == [full_response |-> full_response, citations |-> citations]
       IN /\ gen' = r.g
          /\ CASE r.ev.kind \in {"text", "citations"} ->
                    /\ full_response' = Consume(buf, r.ev).full_response
                    /\ citations' = Consume(buf, r.ev).citations
                    /\ UNCHANGED <<messages, pc, last_error>>
               [] r.ev.kind = "stop" ->
                    /\ pc' = "rendering"
                    /\ UNCHANGED <<messages, full_response, citations, last_error>>
               [] OTHER ->
                    /\ last_error' = r.ev.exc
                    /\ messages' = AfterException(messages, full_response, citations)
                    /\ pc' = "idle"
                    /\ UNCHANGED <<full_response, citations>>
    /\ UNCHANGED <<pending_question, store_name, api_key, run_input, user_input>>
    /\ UNCHANGED <<q_vars, i_vars>>

\* final update without cursor, citations display, assistant message appended
Commit ==
    /\ pc = "rendering"
    /\ messages' = Committed(messages, full_response, citations)
    /\ pc' = "idle"
    /\ UNCHANGED <<pending_question, store_name, api_key, run_input, user_input,
                   full_response, citations, gen, last_error>>
    /\ UNCHANGED <<q_vars, i_vars>>

(***************************************************************************)
(* Document Ingestor: setup_store.py.  fate[d] is what the network and the *)
(* remote store do to document d: nothing ("ok"), the download answers     *)
(* HTTP 404, the upload call raises, the upload operation ends with an     *)
(* error, or polling the operation raises.                                 *)
(***************************************************************************)
Timeout == 300
SleepSeconds == 5

Docs == 1..NumDocs
Fates == {"ok", "http404", "upload_raises", "op_error", "get_raises"}
\* a document count the store reports as None
NoCount == -1
CountValues == {NoCount} \cup 0..MaxCount
NoPoll == [active |-> -1, pending |-> -1, failed |-> -1]
NoResult == [status |-> "none", failed_warning |-> 0]
NothingSeen == [empty |-> FALSE, indexed |-> FALSE]

\* store.<count> or 0
OrZero(count) == IF count = NoCount THEN 0 ELSE count

\* the completion test without the pending count
AnyDocuments(pending, total) == total > 0

\* if pending == 0 and total > 0
IndexingDone(pending, total) == pending = 0 /\ total > 0

\* while time.time() - start_time < timeout
WithinTimeout(e) == e < Timeout

\* a clock that does not advance
ClockStopped(e) == e

\* the clock after time.sleep(5)
AfterSleep(e) == e + SleepSeconds

\* an except clause that leaves the for loop
LoopLeft(d) == NumDocs + 1

\* the for loop after the except clause of document d: the next document
AfterDocError(d) == d + 1

IngestIdle ==
    /\ i_pc = "off"
    /\ i_key = FALSE
    /\ fate = [d \in Docs |-> "ok"]
    /\ doc = 1
    /\ operation = [done |-> FALSE, error |-> FALSE]
    /\ downloaded = {}
    /\ submitted = {}
    /\ reports = [d \in Docs |-> 0]
    /\ elapsed = 0
    /\ last_poll = NoPoll
    /\ saw = NothingSeen
    /\ index_result = NoResult

\* main() up to the for loop: the credential check and the store creation
Start ==
    /\ i_pc = "start"
    /\ i_pc' = IF i_key THEN "for" ELSE "returned"
    /\ UNCHANGED <<i_key, fate, doc, operation, downloaded, submitted, reports,
                   elapsed, last_poll, saw, index_result>>
    /\ UNCHANGED <<q_vars, c_vars>>

\* except Exception as e: print the error of document doc, go on
DocError ==
    /\ reports' = [reports EXCEPT ![doc] = @ + 1]
    /\ doc' = AfterDocError(doc)
    /\ i_pc' = "for"

\* for filename, url in MLH_DOCS.items(): download_file(url, filename, temp_path)
Download ==
    /\ i_pc = "for"
    /\ doc <= NumDocs
    /\ IF fate[doc] = "http404"
       THEN /\ DocError
            /\ UNCHANGED downloaded
       ELSE /\ downloaded' = downloaded \cup {doc}
            /\ i_pc' = "upload"
            /\ UNCHANGED <<doc, reports>>
    /\ UNCHANGED <<i_key, fate, operation, submitted, elapsed, last_poll,
                   saw, index_result>>
    /\ UNCHANGED <<q_vars, c_vars>>

\* operation = client.file_search_stores.upload_to_file_search_store(...)
Upload(done) ==
    /\ i_pc = "upload"
    /\ IF fate[doc] = "upload_raises"
       THEN /\ DocError
            /\ UNCHANGED <<submitted, operation>>
       ELSE /\ submitted' = submitted \cup {doc}
            /\ operation' = [done |-> done /\ fate[doc] # "get_raises",
                             error |-> done /\ fate[doc] = "op_error"]
            /\ i_pc' = "op_wait"
            /\ UNCHANGED <<doc, reports>>
    /\ UNCHANGED <<i_key, fate, downloaded, elapsed, last_poll, saw,
                   index_result>>
    /\ UNCHANGED <<q_vars, c_vars>>

\* while not operation.done: time.sleep(2) ...; then the operation's result
OperationWait ==
    /\ i_pc = "op_wait"
    /\ IF ~operation.done
       THEN /\ i_pc' = "op_get"
            /\ UNCHANGED <<doc, reports>>
       ELSE IF operation.error
       THEN DocError
       ELSE /\ doc' = doc + 1
            /\ i_pc' = "for"
            /\ UNCHANGED reports
    /\ UNCHANGED <<i_key, fate, operation, downloaded, submitted, elapsed,
                   last_poll, saw, index_result>>
    /\ UNCHANGED <<q_vars, c_vars>>

\* operation = client.operations.get(operation)
OperationGet(done) ==
    /\ i_pc = "op_get"
    /\ IF fate[doc] = "get_raises"
       THEN /\ DocError
            /\ UNCHANGED operation
       ELSE /\ operation' = [done |-> done,
                             error |-> done /\ fate[doc] = "op_error"]
            /\ i_pc' = "op_wait"
            /\ UNCHANGED <<doc, reports>>
    /\ UNCHANGED <<i_key, fate, downloaded, submitted, elapsed, last_poll,
                   saw, index_result>>
    /\ UNCHANGED <<q_vars, c_vars>>

\* the for loop is exhausted: wait_for_indexing(client, store.name) starts
EnterIndexing ==
    /\ i_pc = "for"
    /\ doc > NumDocs
    /\ elapsed' = 0
    /\ i_pc' = "index_loop"
    /\ UNCHANGED <<i_key, fate, doc, operation, downloaded, submitted, reports,
                   last_poll, saw, index_result>>
    /\ UNCHANGED <<q_vars, c_vars>>

\* one poll of the while loop of wait_for_indexing; the counts are locals that
\* the next iteration overwrites, so they are kept only when it returns
IndexPoll(a, p, f) ==
    /\ i_pc = "index_loop"
    /\ WithinTimeout(elapsed)
    /\ LET active == OrZero(a)
           pending == OrZero(p)
           failed == OrZero(f)
           total == active + pending + failed
       IN /\ saw' = [empty |-> saw.empty \/ total = 0,
                      indexed |-> saw.indexed \/ (pending = 0 /\ total > 0)]
          /\ IF IndexingDone(pending, total)
             THEN /\ last_poll' = [active |-> active, pending |-> pending,
                                   failed |-> failed]
                  /\ index_result' = [status |-> "complete",
                                      failed_warning |-> failed]
                  /\ i_pc' = "summary"
                  /\ UNCHANGED elapsed
             ELSE /\ i_pc' = "index_sleep"
                  /\ UNCHANGED <<elapsed, last_poll, index_result>>
    /\ UNCHANGED <<i_key, fate, doc, operation, downloaded, submitted, reports>>
    /\ UNCHANGED <<q_vars, c_vars>>

\* time.sleep(5) at the end of an iteration; remote calls take no time
IndexSleep ==
    /\ i_pc = "index_sleep"
    /\ elapsed' = AfterSleep(elapsed)
    /\ i_pc' = "index_loop"
    /\ UNCHANGED <<i_key, fate, doc, operation, downloaded, submitted, reports,
                   last_poll, saw, index_result>>
    /\ UNCHANGED <<q_vars, c_vars>>

\* the while condition fails: "Timeout waiting for indexing", return False
IndexTimeout ==
    /\ i_pc = "index_loop"
    /\ ~WithinTimeout(elapsed)
    /\ index_result' = [status |-> "timeout", failed_warning |-> 0]
    /\ i_pc' = "summary"
    /\ UNCHANGED <<i_key, fate, doc, operation, downloaded, submitted, reports,
                   elapsed, last_poll, saw>>
    /\ UNCHANGED <<q_vars, c_vars>>

(***************************************************************************)
(* Specifications: one per program; the other programs stay idle.          *)
(***************************************************************************)
InitQuery ==
    /\ q_pc = "start"
    /\ q_in \in [store : Stores, query : Questions, key : BOOLEAN,
                 remote : RemoteAnswers]
    /\ q_sync = NotRun
    /\ q_gen = NoGen
    /\ q_buf = EmptyBuf
    /\ q_end = "none"
    /\ ChatIdle
    /\ IngestIdle

NextQuery ==
    \/ QSync
    \/ QStreamCall
    \/ QStreamNext

SpecQuery == InitQuery /\ [][NextQuery]_vars

InitChat ==
    /\ messages = <<>>
    /\ pending_question = None
    /\ pc = "idle"
    /\ store_name \in Stores
    /\ api_key \in BOOLEAN
    /\ run_input = [click |-> None, chat |-> None]
    /\ user_input = None
    /\ full_response = <<>>
    /\ citations = <<>>
    /\ gen = NoGen
    /\ last_error = ""
    /\ QueryIdle
    /\ IngestIdle

NextChat ==
    \/ \E click \in Clicks, chat \in ChatTexts, store \in Stores :
            ScriptRun(click, chat, store)
    \/ ClientMissing
    \/ \E remote \in ChatRemotes : StartStream(remote)
    \/ StreamNext
    \/ Commit

SpecChat == InitChat /\ [][NextChat]_vars

InitIngest ==
    /\ i_pc = "start"
    /\ i_key \in BOOLEAN
    /\ fate \in [Docs -> Fates]
    /\ doc = 1
    /\ operation = [done |-> FALSE, error |-> FALSE]
    /\ downloaded = {}
    /\ submitted = {}
    /\ reports = [d \in Docs |-> 0]
    /\ elapsed = 0
    /\ last_poll = NoPoll
    /\ saw = NothingSeen
    /\ index_result = NoResult
    /\ QueryIdle
    /\ ChatIdle

NextIngest ==
    \/ Start
    \/ Download
    \/ \E done \in BOOLEAN : Upload(done)
    \/ OperationWait
    \/ \E done \in BOOLEAN : OperationGet(done)
    \/ EnterIndexing
    \/ \E a \in CountValues, p \in CountValues, f \in CountValues :
            IndexPoll(a, p, f)
    \/ IndexSleep
    \/ IndexTimeout

SpecIngest == InitIngest /\ [][NextIngest]_vars

\* the script keeps running: every remote call returns and the clock advances
FairIngest == SpecIngest /\ WF_vars(NextIngest)

(***************************************************************************)
(* Properties.                                                             *)
(***************************************************************************)
Last(seq) == seq[Len(seq)]

\* ---- Chat Session Orchestrator

\* the current step raises: the credential is missing, or the generator raises
Raises ==
    \/ pc = "sending" /\ ~api_key
    \/ pc = "streaming" /\ GenNext(gen).ev.kind = "raise"

\* a step that raises, or that ends a turn without rendering it, is an abort
FailedTurnStep ==
    (Raises \/ (pc \in {"sending", "streaming"} /\ pc' = "idle")) =>
        /\ Raises
        /\ pc' = "idle"
        /\ messages' = messages
        /\ Last(messages') = UserTurn(user_input)
        /\ last_error' # ""

\* C1: when sending or streaming raises (missing credential, remote failure,
\* failure after some fragments), the step ends the turn: the transcript is
\* unchanged and still ends with the question's user turn, no assistant turn
\* is appended, the error is reported and the session is idle again.  A turn
\* that is under way always has its user turn at the end of the transcript.
C1_FailedTurnKeepsUserTurn ==
    /\ [](pc \in {"sending", "streaming", "rendering"} =>
            messages # <<>> /\ Last(messages) = UserTurn(user_input))
    /\ [][FailedTurnStep]_vars

\* a turn failed after a fragment had been rendered
C1_Witness ==
    /\ pc = "idle"
    /\ last_error = "RemoteError"
    /\ full_response # <<>>
    /\ messages # <<>>
    /\ Last(messages) = UserTurn(user_input)

\* every assistant turn is immediately preceded by a user turn
AssistantFollowsUser ==
    \A k \in 1..Len(messages) :
        messages[k].role = "assistant" => k > 1 /\ messages[k - 1].role = "user"

\* the transcript is left alone, cleared, or extended by one turn at its end;
\* an assistant turn is appended right after the user turn of its question
TranscriptStep ==
    \/ messages' = messages
    \/ messages' = <<>>
    \/ /\ Len(messages') = Len(messages) + 1
       /\ SubSeq(messages', 1, Len(messages)) = messages
       /\ Last(messages').role \in {"user", "assistant"}
       /\ Last(messages').role = "assistant" =>
              messages # <<>> /\ Last(messages) = UserTurn(user_input)

\* C2: the transcript only changes by one turn appended at its end or by being
\* cleared; an assistant turn is appended right after the user turn of the
\* question it answers, so every assistant turn is immediately preceded by a
\* user turn.
C2_TranscriptOrder == []AssistantFollowsUser /\ [][TranscriptStep]_vars

\* a failed turn followed by an answered one
C2_Witness ==
    /\ Len(messages) >= 3
    /\ messages[1].role = "user"
    /\ messages[2].role = "user"
    /\ messages[3].role = "assistant"

\* a script run: an example click is handled whatever the chat input holds,
\* the pending question is reset, a run without a click handles the chat input
PendingStep ==
    pc \in {"idle", "rerun"} =>
        /\ pending_question' = None
        /\ run_input'.click \in Examples =>
             /\ user_input' = run_input'.click
             /\ IF store_name' = ""
                THEN messages' = messages /\ pc' = "idle"
                ELSE /\ messages' = Append(messages, UserTurn(run_input'.click))
                     /\ pc' = "sending"
        /\ run_input'.click = None => user_input' = run_input'.chat

\* C7: a script run that sees an example click handles that question, whatever
\* the chat input holds, and resets the pending question in the same run,
\* whether the question is accepted or rejected; a run without a click handles
\* the chat input only; between runs and during a turn the pending question is
\* empty.
C7_PendingHandledOnce == [](pending_question = None) /\ [][PendingStep]_vars

\* an example click handled in a run whose chat input held another question
C7_Witness ==
    /\ pc = "sending"
    /\ run_input.click \in Examples
    /\ run_input.chat \in Questions \ {run_input.click}
    /\ user_input = run_input.click
    /\ Last(messages) = UserTurn(run_input.click)
    /\ pending_question = None

\* the clear click, the rerun it requests, and the first turn after it
ClearStep ==
    /\ pc = "idle" /\ run_input'.click = ClearClick =>
           pc' = "rerun" /\ messages' = <<>> /\ pending_question' = None
    /\ pc = "rerun" => pc' = "idle" /\ messages' = <<>>
    /\ messages = <<>> /\ messages' # <<>> =>
           messages' = <<UserTurn(user_input')>>

\* C9: the clear action leaves the transcript empty, with no pending question
\* and no turn under way; the rerun it requests ends idle with the transcript
\* still empty; the first turn appended to an empty transcript is the user turn
\* of the question just asked.
C9_ClearEmptiesTranscript ==
    /\ [](pc = "rerun" => messages = <<>> /\ pending_question = None)
    /\ [][ClearStep]_vars

\* the transcript cleared after a turn that had streamed an answer
C9_Witness ==
    /\ pc = "rerun"
    /\ messages = <<>>
    /\ user_input # None
    /\ full_response # <<>>

\* ---- Query Client

\* C3: a call with an empty store identifier is rejected with a validation
\* error before any remote generation call, in synchronous mode and in
\* streaming mode.
C3_EmptyStoreRejected ==
    q_in.store = "" =>
        /\ q_pc # "start" =>
               /\ q_sync.status = "raise"
               /\ q_sync.exc = "ValueError"
               /\ q_sync.calls = 0
        /\ q_pc = "done" => q_end = "ValueError"
        /\ q_gen.calls = 0

\* both modes answered the same request without an exception
BothAnswered ==
    /\ q_pc = "done"
    /\ q_in.store # ""
    /\ q_sync.status = "ok"
    /\ q_end = "stop"

\* C6: for a non-empty store identifier and the same remote answer, the
\* fragments of streaming mode concatenated in arrival order equal the answer
\* text of synchronous mode, and so does the text the consumer's loop body has
\* accumulated for the assistant turn; while streaming, the accumulated text
\* is the text the generator has yielded so far.
C6_StreamEqualsSync ==
    /\ q_buf.full_response = q_gen.full_response
    /\ BothAnswered => q_buf.full_response = q_sync.text

\* two different fragments arrived in order
C6_Witness ==
    /\ BothAnswered
    /\ Len(q_in.remote.chunks) = 2
    /\ q_buf.full_response = <<"a", "b">>

\* an attribute that is there and not None
Present(v) == v.tag \notin {"absent", "null"}

\* the citation list of a response object, empty when any field on the way
\* to it is absent or None
CitationsOf(candidates) ==
    IF ~(Present(candidates) /\ candidates.items # <<>>) THEN <<>>
    ELSE LET candidate == candidates.items[1] IN
         IF ~(Present(candidate) /\ Present(candidate.gm)) THEN <<>>
         ELSE IF ~Present(candidate.gm.fc) THEN <<>>
         ELSE candidate.gm.fc.items

\* the source list the extraction policy asks for
SourcesOf(candidates) ==
    LET cs == CitationsOf(candidates) IN
    [k \in 1..Len(cs) |->
        [source |-> IF Present(cs[k].file_name) THEN cs[k].file_name
                    ELSE Str("Unknown"),
         text |-> IF Present(cs[k].text) THEN cs[k].text ELSE Str("")]]

\* the response metadata of a remote answer
MetadataOf(remote) == SyncResponse(remote).candidates

\* C8: source extraction never fails because of response metadata: whatever
\* fields are absent, None or present, both modes return the source list, in
\* which a missing title is "Unknown" and a missing text is the empty string.
C8_ExtractionNeverFails ==
    q_in.remote.ending = "end" =>
        /\ q_pc # "start" /\ q_in.store # "" /\ q_in.key =>
               /\ q_sync.status = "ok"
               /\ q_sync.citations = SourcesOf(MetadataOf(q_in.remote))
        /\ q_pc = "done" /\ q_in.store # "" =>
               /\ q_end = "stop"
               /\ q_buf.citations = SourcesOf(MetadataOf(q_in.remote))

\* ---- Document Ingestor

\* the for loop over the documents has ended
LoopDone == i_pc \in {"index_loop", "index_sleep", "summary"}

\* C5: whatever documents fail to download or upload, every document is
\* tried: a document that does not fail is downloaded and submitted and
\* reported as uploaded, a failing document is reported exactly once, and a
\* document is downloaded unless its download fails and submitted unless its
\* download or its upload call fails.
C5_FailuresIsolated ==
    LoopDone =>
        \A d \in Docs :
            /\ reports[d] = IF fate[d] = "ok" THEN 0 ELSE 1
            /\ d \in downloaded <=> fate[d] # "http404"
            /\ d \in submitted <=> fate[d] \notin {"http404", "upload_raises"}

\* exactly one document answered HTTP 404, the documents after it were uploaded
C5_Witness ==
    /\ LoopDone
    /\ fate[1] = "http404"
    /\ \A d \in Docs \ {1} : fate[d] = "ok" /\ d \in submitted
    /\ reports[1] = 1

\* some poll so far reported zero pending documents: with no document at all,
\* or with at least one
SawZeroPending == saw.empty \/ saw.indexed

\* the counts of the poll that ended the wait
PolledTotal == last_poll.active + last_poll.pending + last_poll.failed

\* C4 as stated: the poll stops with completion at the first poll that
\* reports zero pending documents, whatever the active and failed counts, and
\* it reports timeout only when no poll reported zero pending documents.
C4_StopsAtZeroPending ==
    /\ SawZeroPending => index_result.status = "complete"
    /\ index_result.status = "timeout" => ~SawZeroPending

\* C4 amended: the poll stops with completion at the first poll that reports
\* zero pending documents and at least one document, with the failed count
\* as the partial failure; a poll that reports no document at all does not
\* stop it; timeout is reported only when the timeout has elapsed and no poll
\* reported zero pending documents together with at least one document.
C4_StopsWhenIndexed ==
    /\ saw.indexed <=> index_result.status = "complete"
    /\ index_result.status = "complete" =>
           /\ last_poll.pending = 0
           /\ PolledTotal > 0
           /\ index_result.failed_warning = last_poll.failed
    /\ index_result.status = "timeout" => ~WithinTimeout(elapsed)

\* completion with failed documents, after an earlier poll of an empty store
C4_Witness ==
    /\ index_result.status = "complete"
    /\ index_result.failed_warning > 0
    /\ elapsed > 0
    /\ saw.empty

\* C10 as stated: every run leaves its polling loops and ends.
C10_RunEnds == <>(i_pc \in {"summary", "returned"})

\* C10 amended: the store indexing poll blocks for at most the timeout: a run
\* that reaches it ends with the final summary.
C10_IndexingPollEnds ==
    (i_pc \in {"index_loop", "index_sleep"}) ~> (i_pc = "summary")

\* the poll gave up at the timeout: no poll reported an indexed store
C10_Witness ==
    /\ i_pc = "summary"
    /\ index_result.status = "timeout"
    /\ ~saw.indexed
    /\ elapsed >= Timeout

====
